---- MODULE Spec2Model ----
(***************************************************************************)
(* ERC20 token chaincode (chaincode.go): the world state, the Init entry   *)
(* point and the Invoke dispatcher with its ten operations.                *)
(*                                                                         *)
(* Strings and byte slices are sequences of one-character strings, so that *)
(* strconv.Atoi, strconv.ParseUint, strconv.Itoa, json.Marshal and the     *)
(* composite-key codec are computed on characters.  Go's int and uint64    *)
(* are 64 bits wide; their values are kept as decimal digit sequences and  *)
(* the arithmetic wraps at 2^64 as the machine's does.                     *)
(***************************************************************************)
EXTENDS Integers, Sequences, FiniteSets, TLC

VARIABLES
    state,      \* world state: key -> stored bytes (absent keys not in DOMAIN)
    call,       \* the last invocation: [entry, fcn, params]
    response,   \* its response: [status, message, payload]
    calls,      \* the stub calls it made, in order
    prev,       \* the world state before it
    writers,    \* key -> the operations that have ever written it
    inits,      \* the Init invocations that made a stub call, in order
    txCount,    \* number of invocations so far
    procs       \* the transfers in progress when two run at the same time

vars == <<state, call, response, calls, prev, writers, inits, txCount, procs>>

\* Invocations are counted, and enabled while txCount < MaxTx.
MaxTx == 3

-----------------------------------------------------------------------------
(* Characters, digits and decimal arithmetic *)

DigitChars == <<"0", "1", "2", "3", "4", "5", "6", "7", "8", "9">>

IsDigit(c) == \E d \in 1..10 : DigitChars[d] = c

DigitVal(c) == (CHOOSE d \in 1..10 : DigitChars[d] = c) - 1

\* A magnitude is a non-empty sequence of digits 0..9, most significant
\* first, without leading zeros (zero is <<0>>).
RECURSIVE StripZeros(_)
StripZeros(m) ==
    IF Len(m) > 1 /\ m[1] = 0 THEN StripZeros(Tail(m)) ELSE m

\* i-th least significant digit of m (0 beyond its length)
DigitAt(m, i) == IF i <= Len(m) THEN m[Len(m) + 1 - i] ELSE 0

\* -1, 0, 1 as a < b, a = b, a > b (both without leading zeros)
RECURSIVE CmpFrom(_, _, _)
CmpFrom(a, b, i) ==
    IF i > Len(a) THEN 0
    ELSE IF a[i] < b[i] THEN -1
    ELSE IF a[i] > b[i] THEN 1
    ELSE CmpFrom(a, b, i + 1)

CmpMag(a, b) ==
    IF Len(a) < Len(b) THEN -1
    ELSE IF Len(a) > Len(b) THEN 1
    ELSE CmpFrom(a, b, 1)

RECURSIVE AddFrom(_, _, _, _)
AddFrom(a, b, i, carry) ==
    IF i > Len(a) /\ i > Len(b)
    THEN IF carry = 0 THEN <<>> ELSE <<carry>>
    ELSE LET s == DigitAt(a, i) + DigitAt(b, i) + carry
         IN  Append(AddFrom(a, b, i + 1, s \div 10), s % 10)

AddMag(a, b) == StripZeros(AddFrom(a, b, 1, 0))

\* a - b for a >= b
RECURSIVE SubFrom(_, _, _, _)
SubFrom(a, b, i, borrow) ==
    IF i > Len(a) THEN <<>>
    ELSE LET d == DigitAt(a, i) - DigitAt(b, i) - borrow
         IN  Append(SubFrom(a, b, i + 1, IF d < 0 THEN 1 ELSE 0),
                    IF d < 0 THEN d + 10 ELSE d)

SubMag(a, b) == StripZeros(SubFrom(a, b, 1, 0))

\* A signed integer is [neg, mag]; zero is never negative.
MkInt(neg, mag) == [neg |-> neg /\ mag # <<0>>, mag |-> mag]

Zero == MkInt(FALSE, <<0>>)

NegInt(x) == MkInt(~x.neg, x.mag)

AddInt(x, y) ==
    IF x.neg = y.neg THEN MkInt(x.neg, AddMag(x.mag, y.mag))
    ELSE IF CmpMag(x.mag, y.mag) >= 0 THEN MkInt(x.neg, SubMag(x.mag, y.mag))
    ELSE MkInt(y.neg, SubMag(y.mag, x.mag))

SubInt(x, y) == AddInt(x, NegInt(y))

\* x < y
LessInt(x, y) ==
    IF x.neg /\ ~y.neg THEN TRUE
    ELSE IF ~x.neg /\ y.neg THEN FALSE
    ELSE IF x.neg THEN CmpMag(x.mag, y.mag) > 0
    ELSE CmpMag(x.mag, y.mag) < 0

LeqInt(x, y) == x = y \/ LessInt(x, y)

\* The limits of Go's int (64 bits) and uint64.
MaxInt64Mag == <<9,2,2,3,3,7,2,0,3,6,8,5,4,7,7,5,8,0,7>>
MinInt64Mag == <<9,2,2,3,3,7,2,0,3,6,8,5,4,7,7,5,8,0,8>>
MaxUint64Mag == <<1,8,4,4,6,7,4,4,0,7,3,7,0,9,5,5,1,6,1,5>>
TwoTo64Mag == <<1,8,4,4,6,7,4,4,0,7,3,7,0,9,5,5,1,6,1,6>>

MaxInt64 == MkInt(FALSE, MaxInt64Mag)
MinInt64 == MkInt(TRUE, MinInt64Mag)
TwoTo64 == MkInt(FALSE, TwoTo64Mag)

InInt64(x) == LeqInt(MinInt64, x) /\ LeqInt(x, MaxInt64)

\* Two's-complement wrap-around of a result of one + or - on two ints.
Wrap64(x) ==
    IF LessInt(MaxInt64, x) THEN SubInt(x, TwoTo64)
    ELSE IF LessInt(x, MinInt64) THEN AddInt(x, TwoTo64)
    ELSE x

\* Go's x + y and x - y on int
GoAdd(x, y) == Wrap64(AddInt(x, y))
GoSub(x, y) == Wrap64(SubInt(x, y))

-----------------------------------------------------------------------------
(* strconv *)

MagToChars(m) == [i \in 1..Len(m) |-> DigitChars[m[i] + 1]]

CharsToMag(s) == StripZeros([i \in 1..Len(s) |-> DigitVal(s[i])])

AllDigits(s) == \A i \in 1..Len(s) : IsDigit(s[i])

\* strconv.ParseUint(s, 10, 64): digits only, no sign, at most 2^64 - 1
ParseUint(s) ==
    IF Len(s) = 0 \/ ~AllDigits(s) THEN [ok |-> FALSE, val |-> <<0>>]
    ELSE LET m == CharsToMag(s)
         IN  IF CmpMag(m, MaxUint64Mag) > 0 THEN [ok |-> FALSE, val |-> MaxUint64Mag]
             ELSE [ok |-> TRUE, val |-> m]

\* strconv.Atoi(s): an optional sign, then digits; the value within int
Atoi(s) ==
    LET signed == Len(s) > 0 /\ s[1] \in {"+", "-"}
        body == IF signed THEN Tail(s) ELSE s
    IN  IF Len(body) = 0 \/ ~AllDigits(body) THEN [ok |-> FALSE, val |-> Zero]
        ELSE LET v == MkInt(signed /\ s[1] = "-", CharsToMag(body))
             IN  IF InInt64(v) THEN [ok |-> TRUE, val |-> v]
                 ELSE [ok |-> FALSE, val |-> IF v.neg THEN MinInt64 ELSE MaxInt64]

\* strconv.Itoa(x)
Itoa(x) == IF x.neg THEN <<"-">> \o MagToChars(x.mag) ELSE MagToChars(x.mag)

-----------------------------------------------------------------------------
(* encoding/json, for the two structs the chaincode marshals.  The strings *)
(* of this model hold no character that json.Marshal escapes other than    *)
(* the quote, the backslash and U+0000.                                    *)

Q == "\""
BS == "\\"
minUnicodeRuneValue == "U+0000"
maxUnicodeRuneValue == "U+10FFFF"

EscapeChar(c) ==
    IF c = Q THEN <<BS, Q>>
    ELSE IF c = BS THEN <<BS, BS>>
    ELSE IF c = minUnicodeRuneValue THEN <<BS, "u", "0", "0", "0", "0">>
    ELSE <<c>>

RECURSIVE EscapeString(_)
EscapeString(s) ==
    IF Len(s) = 0 THEN <<>> ELSE EscapeChar(s[1]) \o EscapeString(Tail(s))

JsonString(s) == <<Q>> \o EscapeString(s) \o <<Q>>

NameField == <<"{", Q, "n", "a", "m", "e", Q, ":">>
SymbolField == <<",", Q, "s", "y", "m", "b", "o", "l", Q, ":">>
OwnerField == <<",", Q, "o", "w", "n", "e", "r", Q, ":">>
TotalSupplyField ==
    <<",", Q, "t", "o", "t", "a", "l", "S", "u", "p", "p", "l", "y", Q, ":">>

\* json.Marshal(&ERC20Metadata{...}); totalSupply is a uint64 magnitude
MarshalMetadata(m) ==
    NameField \o JsonString(m.Name) \o SymbolField \o JsonString(m.Symbol)
    \o OwnerField \o JsonString(m.Owner)
    \o TotalSupplyField \o MagToChars(m.TotalSupply) \o <<"}">>

SenderField == <<"{", Q, "s", "e", "n", "d", "e", "r", Q, ":">>
RecipientField == <<",", Q, "r", "e", "c", "i", "p", "i", "e", "n", "t", Q, ":">>
AmountField == <<",", Q, "a", "m", "o", "u", "n", "t", Q, ":">>

\* json.Marshal(TransferEvent{...}); Amount is an int
MarshalTransferEvent(e) ==
    SenderField \o JsonString(e.Sender) \o RecipientField
    \o JsonString(e.Recipient) \o AmountField \o Itoa(e.Amount) \o <<"}">>

HasLitAt(b, pos, lit) ==
    /\ pos + Len(lit) - 1 <= Len(b)
    /\ \A i \in 1..Len(lit) : b[pos + i - 1] = lit[i]

\* the characters json's scanner skips between tokens
Whitespace == {" ", "\t", "\r", "\n"}

\* characters below U+0020, which may not stand unescaped in a string
ControlChars == {minUnicodeRuneValue, "\t", "\n", "\r", "\f"}

\* the characters that may follow a backslash, \uXXXX apart
SimpleEscapes == {Q, BS, "/", "b", "f", "n", "r", "t"}

HexDigits ==
    <<"0", "1", "2", "3", "4", "5", "6", "7", "8", "9",
      "a", "b", "c", "d", "e", "f", "A", "B", "C", "D", "E", "F">>

IsHex(c) == \E i \in 1..Len(HexDigits) : HexDigits[i] = c

HexVal(c) ==
    LET i == CHOOSE j \in 1..Len(HexDigits) : HexDigits[j] = c
    IN  IF i > 16 THEN i - 7 ELSE i - 1

\* the rune of the escape \uXXXX whose first hex digit is b[pos]
Hex4(b, pos) ==
    HexVal(b[pos]) * 4096 + HexVal(b[pos + 1]) * 256
    + HexVal(b[pos + 2]) * 16 + HexVal(b[pos + 3])

\* the first index at or after pos that holds no whitespace; 0 stays 0
RECURSIVE SkipWs(_, _)
SkipWs(b, pos) ==
    IF pos >= 1 /\ pos <= Len(b) /\ b[pos] \in Whitespace
    THEN SkipWs(b, pos + 1) ELSE pos

\* b[pos] follows the opening quote of a JSON string: the index of its
\* closing quote, 0 if the string is not closed, holds an unescaped control
\* character or an escape json does not know
RECURSIVE StringClose(_, _)
StringClose(b, pos) ==
    IF pos > Len(b) THEN 0
    ELSE IF b[pos] = Q THEN pos
    ELSE IF b[pos] \in ControlChars THEN 0
    ELSE IF b[pos] # BS THEN StringClose(b, pos + 1)
    ELSE IF pos + 1 > Len(b) THEN 0
    ELSE IF b[pos + 1] \in SimpleEscapes THEN StringClose(b, pos + 2)
    ELSE IF /\ b[pos + 1] = "u"
            /\ pos + 5 <= Len(b)
            /\ \A i \in 2..5 : IsHex(b[pos + i])
         THEN StringClose(b, pos + 6)
    ELSE 0

\* the index of the closing quote of the string that must open at pos
StringEnd(b, pos) ==
    IF pos >= 1 /\ pos <= Len(b) /\ b[pos] = Q
    THEN StringClose(b, pos + 1) ELSE 0

\* the index after a string whose closing quote is at close
AfterString(close) == IF close = 0 THEN 0 ELSE close + 1

\* the first index at or after pos that holds no digit
RECURSIVE DigitsEnd(_, _)
DigitsEnd(b, pos) ==
    IF pos <= Len(b) /\ IsDigit(b[pos]) THEN DigitsEnd(b, pos + 1) ELSE pos

\* the index after the digits that must start at pos, 0 if there is none
DigitsAt(b, pos) == IF DigitsEnd(b, pos) > pos THEN DigitsEnd(b, pos) ELSE 0

\* the index after the integer part that must start at pos: a zero alone, or
\* digits that start with no zero
IntEnd(b, pos) ==
    IF pos > Len(b) \/ ~IsDigit(b[pos]) THEN 0
    ELSE IF b[pos] = "0" THEN pos + 1
    ELSE DigitsEnd(b, pos)

\* the index after the fraction that may follow the integer part ending at int
FracEnd(b, int) ==
    IF int > 0 /\ int <= Len(b) /\ b[int] = "." THEN DigitsAt(b, int + 1)
    ELSE int

\* the index after the exponent that may follow the fraction ending at frac
ExpEnd(b, frac) ==
    IF frac > 0 /\ frac <= Len(b) /\ b[frac] \in {"e", "E"}
    THEN DigitsAt(b, IF frac + 1 <= Len(b) /\ b[frac + 1] \in {"+", "-"}
                     THEN frac + 2 ELSE frac + 1)
    ELSE frac

\* b[pos] is "-" or a digit: the index after the JSON number that starts
\* there, 0 if none
NumberEnd(b, pos) ==
    ExpEnd(b, FracEnd(b, IntEnd(b, IF b[pos] = "-" THEN pos + 1 ELSE pos)))

NoMembers == [end |-> 0, members |-> <<>>]

\* the member m before the members rest of the same object
Prepend(m, rest) ==
    IF rest.end = 0 THEN NoMembers
    ELSE [end |-> rest.end, members |-> <<m>> \o rest.members]

\* ValueEnd: b[pos] starts a JSON value; the index after it, 0 if the text
\* there is no value.  ObjectFrom: b[pos] follows an opening brace; the index
\* after the closing brace (0 if the text is no object) and, for each member,
\* where its key and its value stand.  MembersFrom: the same where a key must
\* start at pos; MemberValue: when the key closes at close and the colon must
\* be at colon; MoreMembers: when member m has been read and a comma or the
\* brace must be at next.  ArrayFrom, ElementsEnd, MoreElements: the same
\* for an array, of which only the end is kept.
RECURSIVE ValueEnd(_, _), ObjectFrom(_, _), MembersFrom(_, _)
RECURSIVE MemberValue(_, _, _, _), MoreMembers(_, _, _)
RECURSIVE ArrayFrom(_, _), ElementsEnd(_, _), MoreElements(_, _)
ValueEnd(b, pos) ==
    IF pos > Len(b) THEN 0
    ELSE IF b[pos] = Q THEN AfterString(StringClose(b, pos + 1))
    ELSE IF b[pos] = "{" THEN ObjectFrom(b, SkipWs(b, pos + 1)).end
    ELSE IF b[pos] = "[" THEN ArrayFrom(b, SkipWs(b, pos + 1))
    ELSE IF HasLitAt(b, pos, <<"t", "r", "u", "e">>) THEN pos + 4
    ELSE IF HasLitAt(b, pos, <<"f", "a", "l", "s", "e">>) THEN pos + 5
    ELSE IF HasLitAt(b, pos, <<"n", "u", "l", "l">>) THEN pos + 4
    ELSE IF b[pos] = "-" \/ IsDigit(b[pos]) THEN NumberEnd(b, pos)
    ELSE 0

ObjectFrom(b, pos) ==
    IF pos <= Len(b) /\ b[pos] = "}" THEN [end |-> pos + 1, members |-> <<>>]
    ELSE MembersFrom(b, pos)

MembersFrom(b, pos) ==
    MemberValue(b, pos, StringEnd(b, pos), SkipWs(b, StringEnd(b, pos) + 1))

MemberValue(b, pos, close, colon) ==
    IF close = 0 \/ colon > Len(b) \/ b[colon] # ":" THEN NoMembers
    ELSE MoreMembers(b, [key |-> pos, close |-> close,
                         val |-> SkipWs(b, colon + 1),
                         end |-> ValueEnd(b, SkipWs(b, colon + 1))],
                     SkipWs(b, ValueEnd(b, SkipWs(b, colon + 1))))

MoreMembers(b, m, next) ==
    IF next = 0 \/ next > Len(b) THEN NoMembers
    ELSE IF b[next] = "}" THEN [end |-> next + 1, members |-> <<m>>]
    ELSE IF b[next] = "," THEN Prepend(m, MembersFrom(b, SkipWs(b, next + 1)))
    ELSE NoMembers

ArrayFrom(b, pos) ==
    IF pos <= Len(b) /\ b[pos] = "]" THEN pos + 1 ELSE ElementsEnd(b, pos)

ElementsEnd(b, pos) == MoreElements(b, SkipWs(b, ValueEnd(b, pos)))

MoreElements(b, next) ==
    IF next = 0 \/ next > Len(b) THEN 0
    ELSE IF b[next] = "]" THEN next + 1
    ELSE IF b[next] = "," THEN ElementsEnd(b, SkipWs(b, next + 1))
    ELSE 0

LowerLetters ==
    <<"a", "b", "c", "d", "e", "f", "g", "h", "i", "j", "k", "l", "m",
      "n", "o", "p", "q", "r", "s", "t", "u", "v", "w", "x", "y", "z">>

UpperLetters ==
    <<"A", "B", "C", "D", "E", "F", "G", "H", "I", "J", "K", "L", "M",
      "N", "O", "P", "Q", "R", "S", "T", "U", "V", "W", "X", "Y", "Z">>

\* the code points of the ASCII letters
LetterRunes ==
    [c \in {LowerLetters[i] : i \in 1..26} \cup {UpperLetters[i] : i \in 1..26} |->
        IF \E i \in 1..26 : LowerLetters[i] = c
        THEN 96 + (CHOOSE i \in 1..26 : LowerLetters[i] = c)
        ELSE 64 + (CHOOSE i \in 1..26 : UpperLetters[i] = c)]

\* the code point of an ASCII letter, 0 for the other characters
RuneOf(c) == IF c \in DOMAIN LetterRunes THEN LetterRunes[c] ELSE 0

\* json matches a key to a field without regard to case: the upper-case
\* letter a rune folds to (U+017F folds to S, U+212A to K), 0 if it folds to
\* no ASCII letter
foldRune(r) ==
    IF r >= 97 /\ r <= 122 THEN r - 32
    ELSE IF r >= 65 /\ r <= 90 THEN r
    ELSE IF r = 383 THEN 83
    ELSE IF r = 8490 THEN 75
    ELSE 0

foldName(s) == [i \in 1..Len(s) |-> foldRune(RuneOf(s[i]))]

\* the folded runes of the key whose text is b[pos..close-1], escapes decoded
RECURSIVE foldKey(_, _, _)
foldKey(b, pos, close) ==
    IF pos >= close THEN <<>>
    ELSE IF b[pos] # BS
    THEN <<foldRune(RuneOf(b[pos]))>> \o foldKey(b, pos + 1, close)
    ELSE IF b[pos + 1] = "u"
    THEN <<foldRune(Hex4(b, pos + 2))>> \o foldKey(b, pos + 6, close)
    ELSE <<0>> \o foldKey(b, pos + 2, close)

\* the json tags of ERC20Metadata's string fields and of its uint64 field
StringTags ==
    {<<"n", "a", "m", "e">>, <<"s", "y", "m", "b", "o", "l">>,
     <<"o", "w", "n", "e", "r">>}

TotalSupplyTag == <<"t", "o", "t", "a", "l", "S", "u", "p", "p", "l", "y">>

\* the tags as json compares them with a key
FoldedStringTags == {foldName(tag) : tag \in StringTags}
FoldedTotalSupplyTag == foldName(TotalSupplyTag)

\* a JSON number that decodes into a uint64: digits, no sign, no leading
\* zero, at most 2^64 - 1
IsJsonUint(s) ==
    /\ Len(s) > 0
    /\ AllDigits(s)
    /\ (Len(s) > 1 => s[1] # "0")
    /\ CmpMag(CharsToMag(s), MaxUint64Mag) <= 0

UnmarshalError == [ok |-> FALSE, TotalSupply |-> <<0>>]

\* the value lit of a member whose folded key is key, decoded into an
\* ERC20Metadata whose TotalSupply is acc so far: a string field takes a
\* string, the uint64 field a number that ParseUint reads; null leaves a
\* field as it is; a key that matches no field is skipped; any other value
\* is a type error
DecodeMember(key, lit, acc) ==
    IF key \in FoldedStringTags
    THEN IF lit[1] \in {"n", Q} THEN [ok |-> TRUE, TotalSupply |-> acc] ELSE UnmarshalError
    ELSE IF key # FoldedTotalSupplyTag \/ lit[1] = "n"
    THEN [ok |-> TRUE, TotalSupply |-> acc]
    ELSE IF IsJsonUint(lit) THEN [ok |-> TRUE, TotalSupply |-> CharsToMag(lit)]
    ELSE UnmarshalError

\* the members ms of a valid object, decoded in order after the members
\* that gave erc20
RECURSIVE DecodeMembers(_, _, _)
DecodeMembers(b, ms, erc20) ==
    IF Len(ms) = 0 \/ ~erc20.ok THEN erc20
    ELSE DecodeMembers(b, Tail(ms),
             DecodeMember(foldKey(b, ms[1].key + 1, ms[1].close),
                          SubSeq(b, ms[1].val, ms[1].end - 1),
                          erc20.TotalSupply))

\* the object obj read from b, decoded when only whitespace follows it
DecodeObject(b, obj) ==
    IF SkipWs(b, obj.end) <= Len(b) THEN UnmarshalError
    ELSE DecodeMembers(b, obj.members, [ok |-> TRUE, TotalSupply |-> <<0>>])

\* the text b, whose first value starts at pos: an object decodes member by
\* member; null leaves the struct at its zero value; any other value, and
\* text that is not one JSON value, is an error
DecodeValue(b, pos) ==
    IF pos <= Len(b) /\ b[pos] = "{"
    THEN DecodeObject(b, ObjectFrom(b, SkipWs(b, pos + 1)))
    ELSE IF SkipWs(b, ValueEnd(b, pos)) <= Len(b) THEN UnmarshalError
    ELSE IF b[pos] = "n" THEN [ok |-> TRUE, TotalSupply |-> <<0>>]
    ELSE UnmarshalError

\* json.Unmarshal(b, &ERC20Metadata{}).  The whole text must be one JSON
\* value; null decodes with no error and leaves the struct at its zero value;
\* an object decodes member by member, whatever keys it has; an array, a
\* string, a number, true and false are type errors.
UnmarshalMetadata(b) == DecodeValue(b, SkipWs(b, 1))

-----------------------------------------------------------------------------
(* The shim's composite keys and the order of keys in the world state *)

\* the characters of this model in code-point order
CharOrder ==
    <<minUnicodeRuneValue, Q, "+", ",", "-",
      "0", "1", "2", "3", "4", "5", "6", "7", "8", "9", ":", "S", BS,
      "a", "b", "c", "d", "e", "i", "l", "m", "n", "o", "p", "r", "s", "t",
      "u", "w", "x", "y", "{", "}", maxUnicodeRuneValue>>

Ord(c) == CHOOSE i \in 1..Len(CharOrder) : CharOrder[i] = c

\* a < b as Go compares strings
RECURSIVE LexLess(_, _)
LexLess(a, b) ==
    IF Len(b) = 0 THEN FALSE
    ELSE IF Len(a) = 0 THEN TRUE
    ELSE IF a[1] # b[1] THEN Ord(a[1]) < Ord(b[1])
    ELSE LexLess(Tail(a), Tail(b))

ValidAttribute(s) ==
    \A i \in 1..Len(s) : s[i] \notin {minUnicodeRuneValue, maxUnicodeRuneValue}

RECURSIVE JoinAttributes(_)
JoinAttributes(attrs) ==
    IF Len(attrs) = 0 THEN <<>>
    ELSE attrs[1] \o <<minUnicodeRuneValue>> \o JoinAttributes(Tail(attrs))

\* stub.CreateCompositeKey(objectType, attrs): "" and an error when the
\* object type or an attribute holds U+0000 or U+10FFFF
CreateCompositeKey(objectType, attrs) ==
    IF ValidAttribute(objectType) /\ \A i \in 1..Len(attrs) : ValidAttribute(attrs[i])
    THEN [ok |-> TRUE,
          key |-> <<minUnicodeRuneValue>> \o objectType
                  \o <<minUnicodeRuneValue>> \o JoinAttributes(attrs)]
    ELSE [ok |-> FALSE, key |-> <<>>]

\* stub.SplitCompositeKey(key): the components between the U+0000
\* separators after the first character; the first is the object type
RECURSIVE SplitFrom(_, _, _)
SplitFrom(key, i, componentIndex) ==
    IF i > Len(key) THEN <<>>
    ELSE IF key[i] = minUnicodeRuneValue
    THEN <<SubSeq(key, componentIndex, i - 1)>> \o SplitFrom(key, i + 1, i + 1)
    ELSE SplitFrom(key, i + 1, componentIndex)

SplitCompositeKey(key) ==
    LET components == SplitFrom(key, 2, 2)
    IN  [objectType |-> components[1], attrs |-> Tail(components)]

insurance == <<"i", "n", "s", "u", "r", "a", "n", "c", "e">>

-----------------------------------------------------------------------------
(* The stub: world state, events, responses *)

\* stub.GetState(key): nil (the empty byte slice) for an absent key
GetState(st, key) == IF key \in DOMAIN st THEN st[key] ELSE <<>>

\* stub.PutState(key, value) fails on the empty key
PutStateFails(key) == key = <<>>

\* the world state after stub.PutState(key, value): an empty value deletes
PutState(st, key, value) ==
    IF PutStateFails(key) THEN st
    ELSE IF value = <<>> THEN [k \in DOMAIN st \ {key} |-> st[k]]
    ELSE [k \in DOMAIN st \cup {key} |-> IF k = key THEN value ELSE st[k]]

\* the keys of st in [startKey, endKey), in key order
RECURSIVE SortKeys(_)
SortKeys(ks) ==
    IF ks = {} THEN <<>>
    ELSE LET least == CHOOSE k \in ks : \A o \in ks \ {k} : LexLess(k, o)
         IN  <<least>> \o SortKeys(ks \ {least})

GetStateByRange(st, startKey, endKey) ==
    SortKeys({k \in DOMAIN st : ~LexLess(k, startKey) /\ LexLess(k, endKey)})

\* stub.GetStateByPartialCompositeKey(objectType, attrs): the keys from the
\* partial composite key up to it followed by U+10FFFF
GetStateByPartialCompositeKey(st, objectType, attrs) ==
    LET partial == CreateCompositeKey(objectType, attrs)
    IN  IF partial.ok
        THEN [ok |-> TRUE,
              keys |-> GetStateByRange(st, partial.key,
                                       partial.key \o <<maxUnicodeRuneValue>>)]
        ELSE [ok |-> FALSE, keys |-> <<>>]

\* records of the stub calls of one invocation
GetCall(key, value) == [op |-> "GetState", key |-> key, value |-> value]
PutCall(key, value) == [op |-> "PutState", key |-> key, value |-> value]
EventCall(name, payload) == [op |-> "SetEvent", key |-> name, value |-> payload]
ScanCall(key) == [op |-> "GetStateByPartialCompositeKey", key |-> key, value |-> <<>>]

\* the world state after the PutState calls among cs
RECURSIVE ApplyCalls(_, _)
ApplyCalls(st, cs) ==
    IF Len(cs) = 0 THEN st
    ELSE ApplyCalls(IF cs[1].op = "PutState"
                    THEN PutState(st, cs[1].key, cs[1].value) ELSE st,
                    Tail(cs))

OK == 200
ERROR == 500
NotFound == 404

\* shim.Success(payload), shim.Error(msg)
Success(payload) == [status |-> OK, message |-> "", payload |-> payload]
Error(msg) == [status |-> ERROR, message |-> msg, payload |-> <<>>]

\* what one handler run did: its response and its stub calls in order
Ret(cs, resp) == [calls |-> cs, response |-> resp]

\* a Go run-time panic (index out of range) ends the handler with no response
Panic == [status |-> 0, message |-> "panic: index out of range", payload |-> <<>>]

transferEvent == <<"t", "r", "a", "n", "s", "f", "e", "r", "E", "v", "e", "n", "t">>
transferSuccess ==
    <<"t", "r", "a", "n", "s", "f", "e", "r", " ", "S", "u", "c", "c", "e", "s", "s">>

-----------------------------------------------------------------------------
(* The chaincode *)

\* the part of ERC20Chaincode.Init after its checks: the two writes
initWrites(tokenName, symbol, owner, amount, amountUint) ==
    LET erc20Bytes == MarshalMetadata([Name |-> tokenName, Symbol |-> symbol,
                                       Owner |-> owner, TotalSupply |-> amountUint])
    IN  IF PutStateFails(tokenName)
        THEN Ret(<<PutCall(tokenName, erc20Bytes)>>, Error("failed to PutState, error: "))
        ELSE IF PutStateFails(owner)
        THEN Ret(<<PutCall(tokenName, erc20Bytes), PutCall(owner, amount)>>,
                 Error("failed to PutState, error: "))
        ELSE Ret(<<PutCall(tokenName, erc20Bytes), PutCall(owner, amount)>>,
                 Success(<<>>))

\* Init without its check that tokenName, symbol and owner are not empty
CCInitEmptyUnchecked(st, params) ==
    IF Len(params) # 4 THEN Ret(<<>>, Error("incorrect number of parameter"))
    ELSE IF ~ParseUint(params[4]).ok
    THEN Ret(<<>>, Error("amount must be a number or amount cannot be negative"))
    ELSE initWrites(params[1], params[2], params[3], params[4], ParseUint(params[4]).val)

\* ERC20Chaincode.Init, on the parameters after the function name
CCInit(st, params) ==
    IF Len(params) # 4 THEN Ret(<<>>, Error("incorrect number of parameter"))
    ELSE
    LET tokenName == params[1]
        symbol == params[2]
        owner == params[3]
        amount == params[4]
        amountUint == ParseUint(amount)
    IN  IF ~amountUint.ok
        THEN Ret(<<>>, Error("amount must be a number or amount cannot be negative"))
        ELSE IF Len(tokenName) = 0 \/ Len(symbol) = 0 \/ Len(owner) = 0
        THEN Ret(<<>>, Error("tokenName or symbol or owner cannot be emtpy"))
        ELSE initWrites(tokenName, symbol, owner, amount, amountUint.val)

\* ERC20Chaincode.totalSupply
totalSupply(st, params) ==
    IF Len(params) # 1 THEN Ret(<<>>, Error("incorrect number of parameter"))
    ELSE
    LET tokenName == params[1]
        erc20Bytes == GetState(st, tokenName)
        rd == <<GetCall(tokenName, erc20Bytes)>>
        erc20 == UnmarshalMetadata(erc20Bytes)
    IN  IF ~erc20.ok THEN Ret(rd, Error("failed to Unmarshal, error: "))
        ELSE Ret(rd, Success(MagToChars(erc20.TotalSupply)))

\* ERC20Chaincode.balanceOf
balanceOf(st, params) ==
    IF Len(params) # 1 THEN Ret(<<>>, Error("incorrect number of parameters"))
    ELSE
    LET address == params[1]
        amountBytes == GetState(st, address)
        rd == <<GetCall(address, amountBytes)>>
    IN  IF amountBytes = <<>> THEN Ret(rd, Success(<<"0">>))
        ELSE Ret(rd, Success(amountBytes))

\* a transfer that debits the caller before it checks the funds
transferBalancesWriteFirst(rd, callerAddress, recipientAddress, callerAmountInt, recipientAmountInt, transferAmountInt) ==
    LET callerResultAmount == GoSub(callerAmountInt, transferAmountInt)
        recipientResultAmount == GoAdd(recipientAmountInt, transferAmountInt)
        put1 == PutCall(callerAddress, Itoa(callerResultAmount))
        put2 == PutCall(recipientAddress, Itoa(recipientResultAmount))
        transferEventBytes ==
            MarshalTransferEvent([Sender |-> callerAddress,
                                  Recipient |-> recipientAddress,
                                  Amount |-> transferAmountInt])
    IN  IF PutStateFails(callerAddress)
        THEN Ret(rd \o <<put1>>, Error("failed to PutState of caller, error: "))
        ELSE IF LessInt(callerResultAmount, Zero)
        THEN Ret(rd \o <<put1>>, Error("caller's balance is not sufficient"))
        ELSE IF PutStateFails(recipientAddress)
        THEN Ret(rd \o <<put1, put2>>, Error("failed to PutState of caller, error: "))
        ELSE Ret(rd \o <<put1, put2, EventCall(transferEvent, transferEventBytes)>>,
                 Success(transferSuccess))

\* a transfer that publishes its event before it writes the balances
transferBalancesEventFirst(rd, callerAddress, recipientAddress, callerAmountInt, recipientAmountInt, transferAmountInt) ==
    LET callerResultAmount == GoSub(callerAmountInt, transferAmountInt)
        recipientResultAmount == GoAdd(recipientAmountInt, transferAmountInt)
        put1 == PutCall(callerAddress, Itoa(callerResultAmount))
        put2 == PutCall(recipientAddress, Itoa(recipientResultAmount))
        event == EventCall(transferEvent,
                           MarshalTransferEvent([Sender |-> callerAddress,
                                                 Recipient |-> recipientAddress,
                                                 Amount |-> transferAmountInt]))
    IN  IF LessInt(callerResultAmount, Zero)
        THEN Ret(rd, Error("caller's balance is not sufficient"))
        ELSE IF PutStateFails(callerAddress)
        THEN Ret(rd \o <<event, put1>>, Error("failed to PutState of caller, error: "))
        ELSE IF PutStateFails(recipientAddress)
        THEN Ret(rd \o <<event, put1, put2>>, Error("failed to PutState of caller, error: "))
        ELSE Ret(rd \o <<event, put1, put2>>, Success(transferSuccess))

\* a transfer that also records its caller under one key that all
\* transfers share
transferBalancesSharedKey(rd, callerAddress, recipientAddress, callerAmountInt, recipientAmountInt, transferAmountInt) ==
    LET callerResultAmount == GoSub(callerAmountInt, transferAmountInt)
        recipientResultAmount == GoAdd(recipientAmountInt, transferAmountInt)
        put1 == PutCall(callerAddress, Itoa(callerResultAmount))
        put2 == PutCall(recipientAddress, Itoa(recipientResultAmount))
        put3 == PutCall(<<"l", "a", "s", "t">>, callerAddress)
        event == EventCall(transferEvent,
                           MarshalTransferEvent([Sender |-> callerAddress,
                                                 Recipient |-> recipientAddress,
                                                 Amount |-> transferAmountInt]))
    IN  IF LessInt(callerResultAmount, Zero)
        THEN Ret(rd, Error("caller's balance is not sufficient"))
        ELSE IF PutStateFails(callerAddress)
        THEN Ret(rd \o <<put1>>, Error("failed to PutState of caller, error: "))
        ELSE IF PutStateFails(recipientAddress)
        THEN Ret(rd \o <<put1, put2>>, Error("failed to PutState of caller, error: "))
        ELSE Ret(rd \o <<put1, put2, put3, event>>, Success(transferSuccess))

\* the part of ERC20Chaincode.transfer after the balances are parsed
transferBalances(rd, callerAddress, recipientAddress, callerAmountInt, recipientAmountInt, transferAmountInt) ==
    LET callerResultAmount == GoSub(callerAmountInt, transferAmountInt)
        recipientResultAmount == GoAdd(recipientAmountInt, transferAmountInt)
    IN  IF LessInt(callerResultAmount, Zero)
        THEN Ret(rd, Error("caller's balance is not sufficient"))
        ELSE
        LET put1 == PutCall(callerAddress, Itoa(callerResultAmount))
            put2 == PutCall(recipientAddress, Itoa(recipientResultAmount))
            transferEventBytes ==
                MarshalTransferEvent([Sender |-> callerAddress,
                                      Recipient |-> recipientAddress,
                                      Amount |-> transferAmountInt])
        IN  IF PutStateFails(callerAddress)
            THEN Ret(rd \o <<put1>>, Error("failed to PutState of caller, error: "))
            ELSE IF PutStateFails(recipientAddress)
            THEN Ret(rd \o <<put1, put2>>, Error("failed to PutState of caller, error: "))
            ELSE Ret(rd \o <<put1, put2, EventCall(transferEvent, transferEventBytes)>>,
                     Success(transferSuccess))

\* the part of ERC20Chaincode.transfer after the amount is checked: the
\* two reads
transferReads(st, callerAddress, recipientAddress, transferAmountInt) ==
    LET callerAmount == GetState(st, callerAddress)
        rd1 == <<GetCall(callerAddress, callerAmount)>>
        callerAmountInt == Atoi(callerAmount)
    IN  IF ~callerAmountInt.ok
        THEN Ret(rd1, Error("caller amount must be integer"))
        ELSE
        LET read == GetState(st, recipientAddress)
            rd2 == rd1 \o <<GetCall(recipientAddress, read)>>
            recipientAmount == IF read = <<>> THEN <<"0">> ELSE read
            recipientAmountInt == Atoi(recipientAmount)
        IN  IF ~recipientAmountInt.ok
            THEN Ret(rd2, Error("caller amount must be integer"))
            ELSE transferBalances(rd2, callerAddress, recipientAddress,
                                  callerAmountInt.val, recipientAmountInt.val,
                                  transferAmountInt)

\* transfer without its check that the amount is positive
transferPositiveUnchecked(st, params) ==
    IF Len(params) # 3 THEN Ret(<<>>, Error("incorrect number of parameters"))
    ELSE IF ~Atoi(params[3]).ok
    THEN Ret(<<>>, Error("transfer amount must be integer"))
    ELSE transferReads(st, params[1], params[2], Atoi(params[3]).val)

\* ERC20Chaincode.transfer
transfer(st, params) ==
    IF Len(params) # 3 THEN Ret(<<>>, Error("incorrect number of parameters"))
    ELSE
    LET callerAddress == params[1]
        recipientAddress == params[2]
        transferAmount == params[3]
        transferAmountInt == Atoi(transferAmount)
    IN  IF ~transferAmountInt.ok
        THEN Ret(<<>>, Error("transfer amount must be integer"))
        ELSE IF LeqInt(transferAmountInt.val, Zero)
        THEN Ret(<<>>, Error("transfer amount must be positive"))
        ELSE transferReads(st, callerAddress, recipientAddress, transferAmountInt.val)

\* ERC20Chaincode.allowance: the errors of CreateCompositeKey and PutState
\* are dropped
allowance(st, params) ==
    IF Len(params) < 3 THEN Ret(<<>>, Panic)
    ELSE
    LET id == params[1]
        name == params[2]
        amount == params[3]
        insuranceKey == CreateCompositeKey(insurance, <<id, name>>).key
    IN  Ret(<<PutCall(insuranceKey, amount)>>, Success(<<>>))

\* json.Marshal of approve's []Insurance
RECURSIVE MarshalInsurances(_)
MarshalInsurances(result) ==
    IF Len(result) = 0 THEN <<>>
    ELSE (<<"{", Q, "n", "a", "m", "e", Q, ":">> \o JsonString(result[1].Name)
          \o <<",", Q, "a", "m", "o", "u", "n", "t", Q, ":">>
          \o JsonString(result[1].Amount) \o <<"}">>)
         \o (IF Len(result) = 1 THEN <<>> ELSE <<",">>)
         \o MarshalInsurances(Tail(result))

\* the []Insurance approve builds from the keys of the scan
Insurances(st, keys) ==
    [i \in 1..Len(keys) |->
        [Name |-> SplitCompositeKey(keys[i]).attrs[2], Amount |-> st[keys[i]]]]

\* ERC20Chaincode.approve
approve(st, params) ==
    IF Len(params) < 1 THEN Ret(<<>>, Panic)
    ELSE
    LET id == params[1]
        insuranceIterator == GetStateByPartialCompositeKey(st, insurance, <<id>>)
        scan == <<ScanCall(CreateCompositeKey(insurance, <<id>>).key)>>
    IN  IF ~insuranceIterator.ok THEN Ret(scan, Error("error: "))
        ELSE IF \E i \in 1..Len(insuranceIterator.keys) :
                    Len(SplitCompositeKey(insuranceIterator.keys[i]).attrs) < 2
        THEN Ret(scan, Panic)
        ELSE Ret(scan, Success(<<"[">>
                               \o MarshalInsurances(Insurances(st, insuranceIterator.keys))
                               \o <<"]">>))

\* transferFrom moving the amount as transfer does
transferFromMoves(st, params) == transfer(st, params)

transferFrom(st, params) == Ret(<<>>, Success(<<>>))
increaseAllowance(st, params) == Ret(<<>>, Success(<<>>))
decreaseAllowance(st, params) == Ret(<<>>, Success(<<>>))
mint(st, params) == Ret(<<>>, Success(<<>>))
burn(st, params) == Ret(<<>>, Success(<<>>))

\* Invoke answering an unknown name with shim.Error
InvokeDefaultError(st, fcn, params) ==
    CASE fcn = "totalSupply" -> totalSupply(st, params)
      [] fcn = "balanceOf" -> balanceOf(st, params)
      [] fcn = "transfer" -> transfer(st, params)
      [] fcn = "allowance" -> allowance(st, params)
      [] fcn = "approve" -> approve(st, params)
      [] fcn = "transferFrom" -> transferFrom(st, params)
      [] fcn = "increaseAllowance" -> increaseAllowance(st, params)
      [] fcn = "decreaseAllowance" -> decreaseAllowance(st, params)
      [] fcn = "mint" -> mint(st, params)
      [] fcn = "burn" -> burn(st, params)
      [] OTHER -> Ret(<<>>, Error("404 Not Found"))

\* ERC20Chaincode.Invoke
Invoke(st, fcn, params) ==
    CASE fcn = "totalSupply" -> totalSupply(st, params)
      [] fcn = "balanceOf" -> balanceOf(st, params)
      [] fcn = "transfer" -> transfer(st, params)
      [] fcn = "allowance" -> allowance(st, params)
      [] fcn = "approve" -> approve(st, params)
      [] fcn = "transferFrom" -> transferFrom(st, params)
      [] fcn = "increaseAllowance" -> increaseAllowance(st, params)
      [] fcn = "decreaseAllowance" -> decreaseAllowance(st, params)
      [] fcn = "mint" -> mint(st, params)
      [] fcn = "burn" -> burn(st, params)
      [] OTHER -> Ret(<<>>, [status |-> NotFound, message |-> "404 Not Found",
                             payload |-> <<>>])

-----------------------------------------------------------------------------
(* A stub call that returns an error.  Every handler but allowance returns *)
(* shim.Error at once when a stub call fails; the calls before it stand.   *)

\* the record of a stub call that returned an error and had no effect
FailedCall(c) ==
    [c EXCEPT !.op = CASE c.op = "PutState" -> "PutStateError"
                       [] c.op = "SetEvent" -> "SetEventError"
                       [] c.op = "GetState" -> "GetStateError"
                       [] OTHER -> "ScanError",
              !.value = IF c.op = "GetState" THEN <<>> ELSE c.value]

\* the message of the shim.Error with which the handler answers the failure
FailureMessage(name, c) ==
    CASE name = "Init" -> "failed to PutState, error: "
      [] name = "transfer" /\ c.op = "PutState" -> "failed to PutState of caller, error: "
      [] name = "transfer" /\ c.op = "SetEvent" -> "failed to SetEvent of TransferEvent, error: "
      [] name = "approve" -> "error: "
      [] OTHER -> "failed to GetState, error: "

\* a failure that undoes the calls made before it
UnderFaultRollsBack(name, r, i) ==
    Ret(<<FailedCall(r.calls[i])>>, Error(FailureMessage(name, r.calls[i])))

\* the run of handler `name` whose i-th stub call fails, r being its run
\* when no call fails; allowance drops the error and goes on
UnderFault(name, r, i) ==
    IF name = "allowance"
    THEN Ret(SubSeq(r.calls, 1, i - 1) \o <<FailedCall(r.calls[i])>>
             \o SubSeq(r.calls, i + 1, Len(r.calls)), r.response)
    ELSE Ret(SubSeq(r.calls, 1, i - 1) \o <<FailedCall(r.calls[i])>>,
             Error(FailureMessage(name, r.calls[i])))

-----------------------------------------------------------------------------
(* The arguments the invocations are called with *)

A == <<"a">>
B == <<"b">>
AB == <<"a", "b">>
T == <<"t">>
S == <<"s">>
Empty == <<>>
WithNul == <<"b", minUnicodeRuneValue>>

\* the key SetAllowance(A, B, _) writes, used as an address
AllowanceKey == CreateCompositeKey(insurance, <<A, B>>).key

MaxInt64Str == MagToChars(MaxInt64Mag)
MaxUint64Str == MagToChars(MaxUint64Mag)

Addresses == {A, B, T, AllowanceKey}

InitParams ==
    {<<T, S, o, a>> : o \in {A, B, T}, a \in {<<"2">>, MaxInt64Str}}
    \cup {<<T, S, A, a>> : a \in {<<"0", "7">>, MaxUint64Str,
                                  MagToChars(TwoTo64Mag), <<"-", "1">>, <<"+", "2">>,
                                  <<"x">>, Empty}}
    \cup {<<Empty, S, A, <<"2">>>>, <<T, Empty, A, <<"2">>>>, <<T, S, Empty, <<"2">>>>,
          <<T, S, A>>, <<T, S, A, <<"2">>, <<"2">>>>}

TransferParams ==
    {<<c, r, <<"1">>>> : c \in Addresses, r \in Addresses}
    \cup {<<A, B, a>> : a \in {MaxInt64Str, <<"0">>, <<"-", "1">>, <<"+", "1">>, <<"x">>, Empty,
                               MagToChars(MinInt64Mag)}}
    \cup {<<A, B>>, <<A, B, <<"1">>, <<"1">>>>}

QueryParams == {<<k>> : k \in Addresses \cup {AB}} \cup {<<>>, <<A, B>>}

\* an allowance amount that json.Unmarshal decodes into an ERC20Metadata
SupplyObject == <<"{", Q>> \o TotalSupplyTag \o <<Q, ":", "5", "}">>

AllowanceParams ==
    {<<g, n, a>> : g \in {A, AB}, n \in {B, AB}, a \in {<<"5">>, <<"7">>}}
    \cup {<<A, B, Empty>>, <<A, B, SupplyObject>>, <<WithNul, B, <<"5">>>>,
          <<A, WithNul, <<"5">>>>, <<A, B>>}

ApproveParams == {<<g>> : g \in {A, AB, B, WithNul}} \cup {<<>>}

NoOpNames == {"transferFrom", "increaseAllowance", "decreaseAllowance", "mint", "burn"}

NoOpCalls ==
    {<<f, <<A, B, <<"1">>>>>> : f \in NoOpNames} \cup {<<"transferFrom", <<>>>>}

UnknownCalls ==
    {<<f, <<A, B, <<"1">>>>>> : f \in {"Transfer", "Init", ""}} \cup {<<"Transfer", <<>>>>}

\* the invocations during which a stub call may fail: one of each handler
\* that calls the stub
FaultCalls ==
    {<<"Init", "init", <<T, S, A, <<"2">>>>>>,
     <<"Invoke", "totalSupply", <<T>>>>,
     <<"Invoke", "balanceOf", <<A>>>>,
     <<"Invoke", "transfer", <<A, B, <<"1">>>>>>,
     <<"Invoke", "allowance", <<A, B, <<"5">>>>>>,
     <<"Invoke", "approve", <<A>>>>}

-----------------------------------------------------------------------------
(* The state machine: one invocation per step *)

Written(cs, name) ==
    {<<cs[i].key, name>> : i \in {j \in 1..Len(cs) :
                                   cs[j].op = "PutState" /\ ~PutStateFails(cs[j].key)}}

Run(entry, fcn, params, r) ==
    /\ txCount < MaxTx
    /\ state' = ApplyCalls(state, r.calls)
    /\ call' = [entry |-> entry, fcn |-> fcn, params |-> params]
    /\ response' = r.response
    /\ calls' = r.calls
    /\ prev' = state
    /\ writers' = writers \cup Written(r.calls, IF entry = "Init" THEN "Init" ELSE fcn)
    /\ inits' = IF entry = "Init" /\ r.calls # <<>>
                THEN Append(inits, [params |-> params, ok |-> r.response.status = OK])
                ELSE inits
    /\ txCount' = txCount + 1
    /\ UNCHANGED procs

Init ==
    /\ state = <<>>
    /\ call = [entry |-> "none", fcn |-> "", params |-> <<>>]
    /\ response = Success(<<>>)
    /\ calls = <<>>
    /\ prev = <<>>
    /\ writers = {}
    /\ inits = <<>>
    /\ txCount = 0
    /\ procs = <<>>

\* the entry point the peer calls: Init when the chaincode is instantiated
\* or upgraded, Invoke for every other transaction
Dispatch(st, entry, fcn, params) ==
    IF entry = "Init" THEN CCInit(st, params) ELSE Invoke(st, fcn, params)

Initialize == \E p \in InitParams : Run("Init", "init", p, Dispatch(state, "Init", "init", p))

TotalSupply ==
    \E p \in QueryParams : Run("Invoke", "totalSupply", p, Invoke(state, "totalSupply", p))

BalanceOf ==
    \E p \in QueryParams : Run("Invoke", "balanceOf", p, Invoke(state, "balanceOf", p))

Transfer ==
    \E p \in TransferParams : Run("Invoke", "transfer", p, Invoke(state, "transfer", p))

SetAllowance ==
    \E p \in AllowanceParams : Run("Invoke", "allowance", p, Invoke(state, "allowance", p))

ListAllowances ==
    \E p \in ApproveParams : Run("Invoke", "approve", p, Invoke(state, "approve", p))

NoOp ==
    \E c \in NoOpCalls : Run("Invoke", c[1], c[2], Invoke(state, c[1], c[2]))

Unknown ==
    \E c \in UnknownCalls : Run("Invoke", c[1], c[2], Invoke(state, c[1], c[2]))

\* an invocation one of whose stub calls returns an error
StubFailure ==
    \E c \in FaultCalls :
        LET name == IF c[1] = "Init" THEN "Init" ELSE c[2]
            r == Dispatch(state, c[1], c[2], c[3])
        IN  /\ txCount < MaxTx
            /\ \E i \in 1..Len(r.calls) :
                   /\ ~(r.calls[i].op = "PutState" /\ PutStateFails(r.calls[i].key))
                   /\ Run(c[1], c[2], c[3], UnderFault(name, r, i))

Next ==
    \/ Initialize
    \/ TotalSupply
    \/ BalanceOf
    \/ Transfer
    \/ SetAllowance
    \/ ListAllowances
    \/ NoOp
    \/ Unknown
    \/ StubFailure

Spec == Init /\ [][Next]_vars

-----------------------------------------------------------------------------
(* Two transfer invocations at the same time.  The chaincode holds no lock *)
(* and no state of its own: each invocation is its sequence of stub calls, *)
(* and the calls of the two interleave on the one world state.             *)

Cc == <<"c">>
Dd == <<"d">>

\* the world state after the Initialize invocations ps, in order
RECURSIVE InitAll(_, _)
InitAll(st, ps) ==
    IF Len(ps) = 0 THEN st
    ELSE InitAll(ApplyCalls(st, CCInit(st, ps[1]).calls), Tail(ps))

\* the world states the two transfers start in
ConcStates ==
    {InitAll(<<>>, <<<<T, S, A, <<"2">>>>, <<T, S, Cc, <<"1">>>>>> \o b \o d) :
        b \in {<<>>, <<<<T, S, B, MaxInt64Str>>>>},
        d \in {<<>>, <<<<T, S, Dd, <<"1">>>>>>}}

\* the arguments of the first and of the second transfer
ConcParams1 == {<<A, B, <<"1">>>>, <<A, A, <<"1">>>>, <<B, A, <<"1">>>>, <<A, B, <<"0">>>>}
ConcParams2 == {<<Cc, Dd, <<"1">>>>, <<Dd, Cc, <<"2">>>>, <<A, Dd, <<"1">>>>}

\* an invocation of transfer before its first step
Start(params) ==
    [pc |-> "getCaller", params |-> params, callerAmount |-> <<>>,
     rest |-> <<>>, calls |-> <<>>, response |-> Success(<<>>)]

\* the invocation q ends with response resp
Return(q, resp) == [q EXCEPT !.pc = "done", !.response = resp]

\* the checks of the arguments, then stub.GetState(callerAddress)
GetCaller(p) ==
    /\ procs[p].pc = "getCaller"
    /\ LET q == procs[p]
           early == transfer(<<>>, q.params)
           callerAddress == q.params[1]
           callerAmount == GetState(state, callerAddress)
           rd == GetCall(callerAddress, callerAmount)
       IN  IF early.calls = <<>>
           THEN /\ procs' = [procs EXCEPT ![p] = Return(q, early.response)]
                /\ UNCHANGED calls
           ELSE /\ procs' = [procs EXCEPT ![p] =
                        IF ~Atoi(callerAmount).ok
                        THEN Return([q EXCEPT !.calls = <<rd>>],
                                    Error("caller amount must be integer"))
                        ELSE [q EXCEPT !.pc = "getRecipient", !.calls = <<rd>>,
                                       !.callerAmount = callerAmount]]
                /\ calls' = Append(calls, rd)
    /\ UNCHANGED <<state, call, response, prev, writers, inits, txCount>>

\* stub.GetState(recipientAddress), then the results and the check of the
\* funds; rest holds the stub calls still to make
GetRecipient(p) ==
    /\ procs[p].pc = "getRecipient"
    /\ LET q == procs[p]
           recipientAddress == q.params[2]
           read == GetState(state, recipientAddress)
           rd == GetCall(recipientAddress, read)
           recipientAmount == IF read = <<>> THEN <<"0">> ELSE read
           run == transferBalances(q.calls \o <<rd>>, q.params[1], recipientAddress,
                                   Atoi(q.callerAmount).val, Atoi(recipientAmount).val,
                                   Atoi(q.params[3]).val)
       IN  /\ procs' = [procs EXCEPT ![p] =
                   IF ~Atoi(recipientAmount).ok
                   THEN Return([q EXCEPT !.calls = q.calls \o <<rd>>],
                               Error("caller amount must be integer"))
                   ELSE IF Len(run.calls) = Len(q.calls) + 1
                   THEN Return([q EXCEPT !.calls = run.calls], run.response)
                   ELSE [q EXCEPT !.pc = "putCaller", !.calls = q.calls \o <<rd>>,
                                  !.rest = SubSeq(run.calls, Len(q.calls) + 2, Len(run.calls)),
                                  !.response = run.response]]
           /\ calls' = Append(calls, rd)
    /\ UNCHANGED <<state, call, response, prev, writers, inits, txCount>>

\* the next stub call of the invocation, made on the world state as it is
\* now; the invocation returns after its last call, an earlier call is
\* followed by the call at next
StubCall(p, pc, next) ==
    /\ procs[p].pc = pc
    /\ LET q == procs[p]
           c == Head(q.rest)
       IN  /\ state' = ApplyCalls(state, <<c>>)
           /\ calls' = Append(calls, c)
           /\ procs' = [procs EXCEPT ![p] =
                   [q EXCEPT !.pc = IF Len(q.rest) = 1 THEN "done" ELSE next,
                             !.calls = Append(q.calls, c),
                             !.rest = Tail(q.rest)]]
    /\ UNCHANGED <<call, response, prev, writers, inits, txCount>>

\* stub.PutState(callerAddress, ...)
PutCaller(p) == StubCall(p, "putCaller", "putRecipient")

\* stub.PutState(recipientAddress, ...)
PutRecipient(p) == StubCall(p, "putRecipient", "setEvent")

\* stub.SetEvent("transferEvent", ...)
SetEvent(p) == StubCall(p, "setEvent", "setEvent")

InitConc ==
    /\ state \in ConcStates
    /\ prev = state
    /\ procs \in {<<Start(p1), Start(p2)>> : p1 \in ConcParams1, p2 \in ConcParams2}
    /\ call = [entry |-> "Invoke", fcn |-> "transfer", params |-> <<>>]
    /\ response = Success(<<>>)
    /\ calls = <<>>
    /\ writers = {}
    /\ inits = <<>>
    /\ txCount = 0

NextConc ==
    \E p \in {1, 2} :
        \/ GetCaller(p)
        \/ GetRecipient(p)
        \/ PutCaller(p)
        \/ PutRecipient(p)
        \/ SetEvent(p)

SpecConc == InitConc /\ [][NextConc]_vars

-----------------------------------------------------------------------------
(* Vocabulary of the properties *)

IsInit == call.entry = "Init"
IsInvoke(fcn) == call.entry = "Invoke" /\ call.fcn = fcn
Succeeded == response.status = OK

\* a stub call of the invocation returned an error
StubFailed ==
    \E i \in 1..Len(calls) :
        calls[i].op \in {"GetStateError", "PutStateError", "SetEventError", "ScanError"}

Reads(cs) == SelectSeq(cs, LAMBDA c : c.op \in {"GetState", "GetStateByPartialCompositeKey"})
Writes(cs) == SelectSeq(cs, LAMBDA c : c.op = "PutState")
Events(cs) == SelectSeq(cs, LAMBDA c : c.op = "SetEvent")

\* the spec's error kinds, by the messages of the code
ValidationMessages ==
    {"incorrect number of parameter", "incorrect number of parameters",
     "amount must be a number or amount cannot be negative",
     "tokenName or symbol or owner cannot be emtpy",
     "transfer amount must be integer", "transfer amount must be positive"}
InsufficientFundsMessage == "caller's balance is not sufficient"

IsValidationError(r) == r.status = ERROR /\ r.message \in ValidationMessages
IsInsufficientFunds(r) == r.status = ERROR /\ r.message = InsufficientFundsMessage

\* a decimal numeral: an optional sign and at least one digit
IsNumeral(s) ==
    LET body == IF Len(s) > 0 /\ s[1] \in {"+", "-"} THEN Tail(s) ELSE s
    IN  Len(body) > 0 /\ AllDigits(body)

\* the integer a numeral denotes, of any size
NumeralValue(s) ==
    IF s[1] \in {"+", "-"} THEN MkInt(s[1] = "-", CharsToMag(Tail(s)))
    ELSE MkInt(FALSE, CharsToMag(s))

\* the balance stored under k: 0 when there is no record
HasBalance(st, k) == k \notin DOMAIN st \/ IsNumeral(st[k])
Balance(st, k) == IF k \in DOMAIN st THEN NumeralValue(st[k]) ELSE Zero

\* the keys that Initialize or Transfer have written
LedgerWritten == {w[1] : w \in {x \in writers : x[2] \in {"Init", "transfer"}}}

KnownNames ==
    {"totalSupply", "balanceOf", "transfer", "allowance", "approve", "transferFrom",
     "increaseAllowance", "decreaseAllowance", "mint", "burn"}

\* the entries ListAllowances(g) returns in st
Listed(st, g) ==
    LET it == GetStateByPartialCompositeKey(st, insurance, <<g>>)
    IN  IF it.ok THEN Insurances(st, it.keys) ELSE <<>>

-----------------------------------------------------------------------------
(* Properties *)

\* C1 (as claimed): a Transfer that succeeds, between distinct or equal
\* addresses, leaves the sum of the caller's and the recipient's stored
\* balances what it was.
C1_Conservation ==
    (IsInvoke("transfer") /\ Len(call.params) = 3 /\ Succeeded) =>
        LET c == call.params[1]
            r == call.params[2]
        IN  AddInt(Balance(state, c), Balance(state, r))
            = AddInt(Balance(prev, c), Balance(prev, r))

\* C2 (as claimed): in every reachable state every balance that Initialize
\* or Transfer has stored is >= 0.
C2_NonNegativeBalances ==
    \A k \in LedgerWritten \cap DOMAIN state :
        IsNumeral(state[k]) => ~Balance(state, k).neg

\* C3 (as claimed): a Transfer of a valid positive amount from a caller
\* whose balance (0 without a record) is below the amount is rejected with
\* the insufficient-funds error, writes nothing and emits no event.
C3_InsufficientFundsRejected ==
    (/\ IsInvoke("transfer") /\ Len(call.params) = 3
     /\ Atoi(call.params[3]).ok /\ LessInt(Zero, Atoi(call.params[3]).val)
     /\ HasBalance(prev, call.params[1])
     /\ LessInt(Balance(prev, call.params[1]), Atoi(call.params[3]).val))
    => /\ IsInsufficientFunds(response)
       /\ Writes(calls) = <<>>
       /\ Events(calls) = <<>>
       /\ state = prev

\* C4: a Transfer whose amount is not a numeral, or is zero or negative, is
\* rejected with a validation error before any read or write: no stub call
\* is made, the world state is unchanged and no event is emitted.
C4_InvalidAmountRejected ==
    (/\ IsInvoke("transfer") /\ Len(call.params) = 3
     /\ \/ ~IsNumeral(call.params[3])
        \/ LeqInt(NumeralValue(call.params[3]), Zero))
    => /\ IsValidationError(response)
       /\ calls = <<>>
       /\ state = prev

\* C4 witness: an invalid amount was refused while the caller held a balance
C4_Witness ==
    /\ IsInvoke("transfer") /\ Len(call.params) = 3
    /\ call.params[3] = <<"-", "1">>
    /\ call.params[1] \in DOMAIN prev /\ IsNumeral(prev[call.params[1]])
    /\ response.message = "transfer amount must be positive"

\* C5 (as claimed): a successful Transfer between distinct addresses leaves
\* the caller with its balance minus the amount, the recipient with its
\* balance plus the amount, and emits exactly one transferEvent carrying
\* sender, recipient and amount.
C5_TransferMovesAmount ==
    (IsInvoke("transfer") /\ Len(call.params) = 3 /\ Succeeded
     /\ call.params[1] # call.params[2]) =>
        LET c == call.params[1]
            r == call.params[2]
            amount == NumeralValue(call.params[3])
        IN  /\ Balance(state, c) = SubInt(Balance(prev, c), amount)
            /\ Balance(state, r) = AddInt(Balance(prev, r), amount)
            /\ Events(calls)
               = <<EventCall(transferEvent,
                             MarshalTransferEvent([Sender |-> c, Recipient |-> r,
                                                   Amount |-> amount]))>>

\* C6 (as claimed): right after a successful Initialize(tokenName, symbol,
\* owner, amount), TotalSupply(tokenName) returns amount and BalanceOf(owner)
\* returns amount.
C6_InitializeSetsSupplyAndBalance ==
    (IsInit /\ Succeeded) =>
        /\ totalSupply(state, <<call.params[1]>>).response
           = Success(MagToChars(CharsToMag(call.params[4])))
        /\ balanceOf(state, <<call.params[3]>>).response = Success(call.params[4])

\* C7: BalanceOf of an address that no Initialize or Transfer has written
\* succeeds and returns 0, whenever the world state answers the read.
C7_UnwrittenByLedgerIsZero ==
    (IsInvoke("balanceOf") /\ Len(call.params) = 1 /\ ~StubFailed
     /\ call.params[1] \notin LedgerWritten)
    => response = Success(<<"0">>)

\* C8: Initialize with other than 4 arguments, an empty tokenName, symbol or
\* owner, or an amount that is not a string of digits fails with a
\* validation error and writes nothing.
C8_InvalidInitializeRejected ==
    (/\ IsInit
     /\ \/ Len(call.params) # 4
        \/ \E i \in 1..3 : call.params[i] = <<>>
        \/ Len(call.params[4]) = 0
        \/ ~AllDigits(call.params[4]))
    => /\ IsValidationError(response)
       /\ Writes(calls) = <<>>
       /\ state = prev

\* C8 witness: an Initialize with an empty symbol and a valid amount was
\* refused in a world state that already held records
C8_Witness ==
    /\ IsInit /\ Len(call.params) = 4
    /\ call.params[2] = <<>> /\ call.params[1] # <<>> /\ call.params[3] # <<>>
    /\ ParseUint(call.params[4]).ok
    /\ response.status = ERROR
    /\ DOMAIN prev # {}

\* C9 (as claimed): after SetAllowance(g, n, a), ListAllowances(g) contains
\* {name: n, amount: a}; and every entry ListAllowances(g) returns lies
\* under a key made of granter g exactly.
C9_SetAllowanceListed ==
    /\ (IsInvoke("allowance") /\ Len(call.params) = 3 /\ Succeeded) =>
           \E i \in 1..Len(Listed(state, call.params[1])) :
               Listed(state, call.params[1])[i]
               = [Name |-> call.params[2], Amount |-> call.params[3]]
    /\ \A g \in {A, B, AB} :
           LET it == GetStateByPartialCompositeKey(state, insurance, <<g>>)
           IN  \A i \in 1..Len(it.keys) :
                   SplitCompositeKey(it.keys[i]).attrs[1] = g

\* C10: an operation name outside the ten known names gets the 404 result,
\* which no other invocation returns and which is not the error status;
\* the world state is unchanged, and no stub call is made.
C10_UnknownOperationNotFound ==
    /\ (call.entry = "Invoke" /\ call.fcn \notin KnownNames) =>
           /\ response.status = NotFound
           /\ response.status # ERROR
           /\ calls = <<>>
           /\ state = prev
    /\ (call.entry = "Init" \/ (call.entry = "Invoke" /\ call.fcn \in KnownNames)) =>
           response.status # NotFound

\* C10 witness: an unknown name was dispatched on a world state holding
\* records
C10_Witness ==
    /\ call.entry = "Invoke" /\ call.fcn = "Transfer"
    /\ response.status = NotFound
    /\ DOMAIN state # {}

\* C11: TransferFrom, IncreaseAllowance, DecreaseAllowance, Mint and Burn
\* return success for every argument list in every state, make no stub
\* call, and leave the whole world state unchanged.
C11_NoOpsSucceedWithoutEffect ==
    (call.entry = "Invoke" /\ call.fcn \in NoOpNames) =>
        /\ response = Success(<<>>)
        /\ calls = <<>>
        /\ state = prev

\* C11 witness: transferFrom("a", "b", "1") answered while "a" held a
\* balance that a transfer of 1 would have moved
C11_Witness ==
    /\ IsInvoke("transferFrom") /\ call.params = <<A, B, <<"1">>>>
    /\ transfer(prev, call.params).response.status = OK
    /\ response.status = OK
    /\ state = prev

\* the last stub call of the invocation was a SetEvent that failed
EventFailed == Len(calls) > 0 /\ calls[Len(calls)].op = "SetEventError"

\* C12: when SetEvent fails after Transfer wrote both balances, Transfer
\* returns the event error and the world state holds the new balances of
\* the caller and the recipient.
C12_EventFailureKeepsBalances ==
    (IsInvoke("transfer") /\ EventFailed) =>
        LET c == call.params[1]
            r == call.params[2]
            amount == Atoi(call.params[3]).val
            callerNew == Itoa(GoSub(Balance(prev, c), amount))
            recipientNew == Itoa(GoAdd(Balance(prev, r), amount))
        IN  /\ response = Error("failed to SetEvent of TransferEvent, error: ")
            /\ Writes(calls) = <<PutCall(c, callerNew), PutCall(r, recipientNew)>>
            /\ Events(calls) = <<>>
            /\ GetState(state, r) = recipientNew
            /\ c # r => GetState(state, c) = callerNew
            /\ \A k \in (DOMAIN prev \cup DOMAIN state) \ {c, r} :
                   GetState(state, k) = GetState(prev, k)

\* C12 witness: Transfer("a", "b", "1") whose SetEvent failed, with "b"
\* credited and "a" debited
C12_Witness ==
    /\ IsInvoke("transfer") /\ EventFailed
    /\ call.params = <<A, B, <<"1">>>>
    /\ response.status = ERROR
    /\ GetState(state, B) # GetState(prev, B)
    /\ GetState(state, A) # GetState(prev, A)

\* the token names of the Initialize invocations that succeeded
TokenNames == {inits[i].params[1] : i \in {j \in 1..Len(inits) : inits[j].ok}}

\* C13: once Initialize(tokenName, ...) has succeeded, no Invoke operation
\* changes the record stored under tokenName, whatever its arguments.
C13_MetadataImmutable ==
    call.entry = "Invoke" =>
        \A k \in TokenNames : GetState(state, k) = GetState(prev, k)

\* the keys that hold an address balance: written by Initialize or Transfer
\* and holding a numeral
BalanceKeys(st) == {k \in LedgerWritten \cap DOMAIN st : IsNumeral(st[k])}

RECURSIVE SumBalances(_, _)
SumBalances(st, ks) ==
    IF ks = {} THEN Zero
    ELSE LET k == CHOOSE x \in ks : TRUE
         IN  AddInt(Balance(st, k), SumBalances(st, ks \ {k}))

\* C14: after one successful Initialize and any Invoke operations, the sum
\* of the stored address balances equals the totalSupply recorded in the
\* token metadata.
C14_SupplyInvariant ==
    (Len(inits) = 1 /\ inits[1].ok) =>
        LET erc20 == UnmarshalMetadata(GetState(state, inits[1].params[1]))
        IN  /\ erc20.ok
            /\ SumBalances(state, BalanceKeys(state)) = MkInt(FALSE, erc20.TotalSupply)

\* the messages of the checks: arity, parsing, emptiness, positivity,
\* decoding of stored records, sufficient funds
CheckMessages ==
    ValidationMessages
    \cup {InsufficientFundsMessage, "failed to Unmarshal, error: ",
          "caller amount must be integer"}

\* C15: an invocation that returns a validation, decode or
\* insufficient-funds error has made no write before it: its stub calls are
\* reads only and the world state is as it was.
C15_ValidateBeforeWrite ==
    (response.status = ERROR /\ response.message \in CheckMessages) =>
        /\ \A i \in 1..Len(calls) : calls[i].op = "GetState"
        /\ state = prev

\* C15 witness: a Transfer over a non-empty world state that read both
\* balances and was refused for insufficient funds
C15_Witness ==
    /\ IsInvoke("transfer") /\ IsInsufficientFunds(response)
    /\ Len(calls) = 2 /\ calls[1].value # <<>>
    /\ Atoi(call.params[3]).ok
    /\ state = prev /\ prev # <<>>

\* C16: an event is emitted only by a Transfer that succeeds; it is the one
\* transferEvent of the invocation, it is the last stub call, the two calls
\* before it are the writes of the caller's and the recipient's new
\* balances, and it carries the addresses and the amount of those writes.
\* A Transfer that fails emits no event.
C16_EventAfterBothWrites ==
    /\ Events(calls) # <<>> =>
        /\ IsInvoke("transfer") /\ Succeeded
        /\ Len(call.params) = 3 /\ Atoi(call.params[3]).ok
        /\ LET c == call.params[1]
               r == call.params[2]
               amount == Atoi(call.params[3]).val
               n == Len(calls)
           IN  /\ n = 5
               /\ calls[n - 2] = PutCall(c, Itoa(GoSub(Balance(prev, c), amount)))
               /\ calls[n - 1] = PutCall(r, Itoa(GoAdd(Balance(prev, r), amount)))
               /\ calls[n] = EventCall(transferEvent,
                                       MarshalTransferEvent([Sender |-> c, Recipient |-> r,
                                                             Amount |-> amount]))
               /\ Len(Events(calls)) = 1
               /\ GetState(state, r) = calls[n - 1].value
    /\ (IsInvoke("transfer") /\ ~Succeeded) => Events(calls) = <<>>

\* C16 witness: a Transfer between two addresses that wrote both balances
\* and then emitted its event
C16_Witness ==
    /\ IsInvoke("transfer") /\ Succeeded
    /\ call.params[1] # call.params[2]
    /\ Len(Writes(calls)) = 2
    /\ Len(Events(calls)) = 1
    /\ calls[Len(calls)].op = "SetEvent"
    /\ GetState(state, call.params[1]) = calls[3].value

\* the keys SetAllowance has written: the entries of the allowance registry
AllowanceWritten == {w[1] : w \in {x \in writers : x[2] = "allowance"}}

\* the world state st without the entries of the allowance registry
WithoutAllowances(st) == [k \in DOMAIN st \ AllowanceWritten |-> st[k]]

\* C17: SetAllowance changes at most the composite-key entry of its pair
\* and no key that Initialize or Transfer wrote; Transfer changes no
\* allowance entry; and Transfer answers and writes the same whatever the
\* allowance registry holds.
C17_RegistryLedgerIndependent ==
    /\ (IsInvoke("allowance") /\ Len(call.params) >= 3) =>
           LET key == CreateCompositeKey(insurance, <<call.params[1], call.params[2]>>).key
           IN  /\ \A k \in (DOMAIN prev \cup DOMAIN state) \ {key} :
                      GetState(state, k) = GetState(prev, k)
               /\ \A k \in {w[1] : w \in {x \in writers : x[2] \in {"Init", "transfer"}}} :
                      GetState(state, k) = GetState(prev, k)
    /\ IsInvoke("transfer") =>
           /\ \A k \in AllowanceWritten : GetState(state, k) = GetState(prev, k)
           /\ transfer(prev, call.params).response
                  = transfer(WithoutAllowances(prev), call.params).response
           /\ Writes(transfer(prev, call.params).calls)
                  = Writes(transfer(WithoutAllowances(prev), call.params).calls)

\* the grantee names a listing holds
ListedNames(l) == {l[i].Name : i \in 1..Len(l)}

\* the granters the invocations name
Granters == {p[1] : p \in {q \in AllowanceParams : Len(q) >= 1}} \cup {p[1] : p \in {q \in ApproveParams : Len(q) >= 1}}

\* C18: in a run where only SetAllowance has written, SetAllowance(g, n, a)
\* leaves ListAllowances(g) with exactly one entry for each name listed
\* before and for n, the entry of n holding a and the others their amounts,
\* in ascending order of granteeName, and leaves the listing of every
\* other granter as it was.
C18_LastWriteWins ==
    (/\ IsInvoke("allowance") /\ Len(call.params) >= 3
     /\ \A w \in writers : w[2] = "allowance") =>
        LET g == call.params[1]
            n == call.params[2]
            before == Listed(prev, g)
            after == Listed(state, g)
        IN  /\ ListedNames(after) = ListedNames(before) \cup {n}
            /\ Len(after) = Cardinality(ListedNames(after))
            /\ \A i \in 1..Len(after) :
                   IF after[i].Name = n THEN after[i].Amount = call.params[3]
                   ELSE \E j \in 1..Len(before) : before[j] = after[i]
            /\ \A i \in 1..(Len(after) - 1) : LexLess(after[i].Name, after[i + 1].Name)
            /\ \A h \in Granters \ {g} : Listed(state, h) = Listed(prev, h)

\* k holds in st the metadata record an Initialize invocation stored
HoldsMetadata(st, k) ==
    /\ k \in DOMAIN st
    /\ \E i \in 1..Len(inits) :
           /\ inits[i].params[1] = k
           /\ st[k] = CCInit(<<>>, inits[i].params).calls[1].value

\* C19: TotalSupply, BalanceOf and ListAllowances make no PutState and no
\* SetEvent call and leave the world state as it was, whether they succeed
\* or fail; and TotalSupply(key) fails for every key that holds no token
\* metadata record.
C19_QueriesReadOnly ==
    /\ (call.entry = "Invoke" /\ call.fcn \in {"totalSupply", "balanceOf", "approve"}) =>
           /\ \A i \in 1..Len(calls) :
                  calls[i].op \in {"GetState", "GetStateByPartialCompositeKey",
                                   "GetStateError", "ScanError"}
           /\ state = prev
    /\ (IsInvoke("totalSupply") /\ Len(call.params) = 1
        /\ ~HoldsMetadata(prev, call.params[1])) => ~Succeeded

\* the key set of a transfer with arguments params
KeySet(params) == {params[1], params[2]}

\* both transfers have returned
BothDone == procs # <<>> /\ procs[1].pc = "done" /\ procs[2].pc = "done"

\* the world state, the responses and the stub calls when the transfer with
\* arguments p1 runs from st to its end and then the one with arguments p2
OneAfterTheOther(st, p1, p2) ==
    LET r1 == transfer(st, p1)
        s1 == ApplyCalls(st, r1.calls)
        r2 == transfer(s1, p2)
    IN  [state |-> ApplyCalls(s1, r2.calls), first |-> r1, second |-> r2]

\* C20: when two transfers with disjoint key sets have both returned,
\* however their stub calls interleaved, the world state, the two
\* responses and the stub calls of each are those of running the first and
\* then the second, and those of running the second and then the first.
C20_DisjointTransfersSerializable ==
    (/\ BothDone
     /\ KeySet(procs[1].params) \cap KeySet(procs[2].params) = {}) =>
        LET fwd == OneAfterTheOther(prev, procs[1].params, procs[2].params)
            rev == OneAfterTheOther(prev, procs[2].params, procs[1].params)
        IN  /\ state = fwd.state
            /\ state = rev.state
            /\ procs[1].response = fwd.first.response
            /\ procs[2].response = fwd.second.response
            /\ procs[1].response = rev.second.response
            /\ procs[2].response = rev.first.response
            /\ procs[1].calls = fwd.first.calls
            /\ procs[2].calls = fwd.second.calls

\* C20 witness: two successful transfers with disjoint key sets, the second
\* of which read its balances after the first had read its own and before
\* the first wrote, and wrote between the two writes of the first
C20_Witness ==
    /\ BothDone
    /\ KeySet(procs[1].params) \cap KeySet(procs[2].params) = {}
    /\ procs[1].response.status = OK /\ procs[2].response.status = OK
    /\ Len(calls) = 10
    /\ calls[1].key \in KeySet(procs[1].params)
    /\ calls[2].key \in KeySet(procs[2].params) /\ calls[2].op = "GetState"
    /\ calls[5].op = "PutState" /\ calls[5].key \in KeySet(procs[1].params)
    /\ calls[6].op = "PutState" /\ calls[6].key \in KeySet(procs[2].params)
    /\ calls[7].op = "PutState" /\ calls[7].key \in KeySet(procs[1].params)
    /\ state # prev

====
